---- MODULE Spec2Model ----
(***************************************************************************)
(* A model of moogle/storage/models.py: an in-memory fake of a bucket/blob *)
(* object store with resumable upload sessions.                            *)
(*                                                                         *)
(* Python objects live in three heaps (sequences indexed by object id):    *)
(* bucketObjs, blobObjs and uploadObjs.  A caller may hold a handle to any *)
(* object that was ever returned to it, so every operation may be applied  *)
(* to every allocated object, registered or not.                           *)
(*                                                                         *)
(* Every method is an operator from a heap record h to a result record     *)
(* [h, err, ret, data]: h is the heap when the method returned or raised,  *)
(* err the class of the exception raised ("none" when it returned).        *)
(***************************************************************************)
EXTENDS Integers, Sequences, FiniteSets, TLC

VARIABLES buckets,      \* FakeClient.__buckets : bucket name -> bucket id (0 = no key)
          uploads,      \* FakeClient.uploads   : the registered session URLs
          bucketObjs,   \* heap of FakeBucket objects
          blobObjs,     \* heap of FakeBlob objects
          uploadObjs,   \* heap of FakeBlobUpload objects
          sent          \* history: per session URL, the payloads handed to put, in order
                        \* (forgotten when the URL is deleted)

vars == <<buckets, uploads, bucketObjs, blobObjs, uploadObjs, sent>>

(***************************************************************************)
(* Bounds of the model.  The calls are explored under three profiles of    *)
(* inputs: the address space of buckets and blobs (Spec), an upload        *)
(* session fed in chunks (SpecUpload) and reads and writes of a blob       *)
(* (SpecIO).                                                               *)
(* Every profile makes every call; they differ in how many objects and     *)
(* which payloads the caller uses.                                         *)
(***************************************************************************)
MaxObjects == 4    \* Spec: objects (buckets, blobs, sessions) ever constructed
MaxBuf     == 1    \* Spec: bytes a session's staging buffer may hold

UpMaxObjects == 3  \* SpecUpload
UpMaxBuf     == 3

IoMaxObjects == 3  \* SpecIO
IoMaxBuf     == 1

ShMaxObjects == 4  \* SpecShared: a bucket, a blob and two sessions on it
ShMaxBuf     == 2

\* arguments of upload_from_string: bytes, or str (a sequence of code points)
Bytes(s) == [kind |-> "bytes", v |-> s]
Str(s)   == [kind |-> "str", v |-> s]
NoData   == [kind |-> "none", v |-> <<>>]

\* the Content-Range header of a put: total length unknown ("bytes 0-3/*"),
\* known ("bytes 0-3/4"), no such header, or no headers argument at all
Headers == {"unknown", "known", "absent", "noheaders"}

StoreProfile ==
    [maxObjects |-> MaxObjects,
     maxBuf |-> MaxBuf, bucketNames |-> {"b1", "b2"}, blobNames |-> {"x", "y"},
     payloads |-> {Bytes(<<1>>)}, headers |-> {"unknown", "known"},
     writeData |-> {Bytes(<<7>>)}, reads |-> FALSE]

UploadProfile ==
    [maxObjects |-> UpMaxObjects,
     maxBuf |-> UpMaxBuf, bucketNames |-> {"b1"}, blobNames |-> {"x"},
     payloads |-> {Bytes(<<1>>), Bytes(<<2>>)}, headers |-> {"unknown", "known"},
     writeData |-> {Bytes(<<7>>)}, reads |-> FALSE]

SharedProfile ==
    [maxObjects |-> ShMaxObjects,
     maxBuf |-> ShMaxBuf, bucketNames |-> {"b1"}, blobNames |-> {"x"},
     payloads |-> {Bytes(<<1>>), Bytes(<<2>>)}, headers |-> {"unknown", "known"},
     writeData |-> {Bytes(<<7>>)}, reads |-> FALSE]

IoProfile ==
    [maxObjects |-> IoMaxObjects,
     maxBuf |-> IoMaxBuf, bucketNames |-> {"b1"}, blobNames |-> {"x"},
     payloads |-> {NoData, Bytes(<<>>), Bytes(<<1>>)}, headers |-> Headers,
     writeData |-> {Bytes(<<>>), Bytes(<<1>>), Bytes(<<1, 2, 3>>), Str(<<>>),
                    Str(<<65, 233>>)},
     reads |-> TRUE]

\* Optional values: the size property and the end argument of download_as_bytes
None    == [some |-> FALSE, v |-> 0]
Some(n) == [some |-> TRUE, v |-> n]

\* status codes
STATUS_OK == 200
UPLOAD_INCOMPLETE_STATUS == 308

(***************************************************************************)
(* The heap and results of calls.                                          *)
(***************************************************************************)
Heap == [buckets |-> buckets, uploads |-> uploads, bucketObjs |-> bucketObjs,
         blobObjs |-> blobObjs, uploadObjs |-> uploadObjs]

Ok(h, ret)     == [h |-> h, err |-> "none", ret |-> ret, data |-> <<>>]
Raise(h, kind) == [h |-> h, err |-> kind, ret |-> 0, data |-> <<>>]

RECURSIVE Concat(_)
Concat(ss) == IF ss = <<>> THEN <<>> ELSE Head(ss) \o Concat(Tail(ss))

\* bytes(data, 'utf8') for one code point
Utf8Char(c) ==
    IF c < 128 THEN <<c>>
    ELSE IF c < 2048 THEN <<192 + (c \div 64), 128 + (c % 64)>>
    ELSE <<224 + (c \div 4096), 128 + ((c \div 64) % 64), 128 + (c % 64)>>

Utf8(s) == Concat([i \in 1..Len(s) |-> Utf8Char(s[i])])

\* io.BytesIO.read(n) at position pos: n < 0 reads to the end
BytesIORead(contents, pos, n) ==
    LET len  == Len(contents)
        stop == IF n < 0 THEN len ELSE IF pos + n > len THEN len ELSE pos + n
    IN  IF pos >= len THEN [data |-> <<>>, pos |-> pos]
        ELSE [data |-> SubSeq(contents, pos + 1, stop), pos |-> stop]

\* io.BytesIO.write(data) at position pos (pos <= Len(contents) in this program)
BytesIOWrite(contents, pos, data) ==
    [contents |-> SubSeq(contents, 1, pos) \o data
                    \o SubSeq(contents, pos + Len(data) + 1, Len(contents)),
     pos |-> pos + Len(data)]

(***************************************************************************)
(* FakeBucket                                                              *)
(***************************************************************************)
\* self.blobs is an OrderedDict keyed by blob name: the sequence of the blob
\* ids it holds, in insertion order, each held under its blob's name;
\* KeyIndex is the position of the entry under key n (0 = no such key)
KeyIndex(h, bk, n) ==
    LET blobs == h.bucketObjs[bk].blobs
        S == {i \in 1..Len(blobs) : h.blobObjs[blobs[i]].name = n}
    IN  IF S = {} THEN 0 ELSE CHOOSE i \in S : TRUE

\* self.blobs.get(n): the blob id held under n, 0 for no key
BlobsGet(h, bk, n) ==
    LET i == KeyIndex(h, bk, n) IN IF i = 0 THEN 0 ELSE h.bucketObjs[bk].blobs[i]

\* variant: the entry under the name is replaced (no membership test)
register_blob_overwrite(h, bk, b) ==
    LET i == KeyIndex(h, bk, h.blobObjs[b].name)
    IN  IF i = 0 THEN [h EXCEPT !.bucketObjs[bk].blobs = Append(@, b)]
        ELSE [h EXCEPT !.bucketObjs[bk].blobs[i] = b]

\* variant: a new entry goes to the front (move_to_end(name, last=False))
register_blob_front(h, bk, b) ==
    IF KeyIndex(h, bk, h.blobObjs[b].name) = 0
    THEN [h EXCEPT !.bucketObjs[bk].blobs = <<b>> \o @]
    ELSE h

register_blob(h, bk, b) ==
    IF KeyIndex(h, bk, h.blobObjs[b].name) = 0
    THEN [h EXCEPT !.bucketObjs[bk].blobs = Append(@, b)]
    ELSE h

\* variant: self.blobs.popitem(), the last entry goes whatever its name
delete_blob_popitem(h, bk, b) ==
    LET blobs == h.bucketObjs[bk].blobs
    IN  IF blobs = <<>> THEN Raise(h, "KeyError")
        ELSE Ok([h EXCEPT !.bucketObjs[bk].blobs = SubSeq(blobs, 1, Len(blobs) - 1)], 0)

\* del self.blobs[blob.name]
delete_blob(h, bk, b) ==
    LET i == KeyIndex(h, bk, h.blobObjs[b].name)
        blobs == h.bucketObjs[bk].blobs
    IN  IF i = 0 THEN Raise(h, "KeyError")
        ELSE Ok([h EXCEPT !.bucketObjs[bk].blobs =
                    SubSeq(blobs, 1, i - 1) \o SubSeq(blobs, i + 1, Len(blobs))], 0)

get_blob(h, bk, n) ==
    LET b == BlobsGet(h, bk, n) IN IF b = 0 THEN Raise(h, "NotFound") ELSE Ok(h, b)

list_blobs(h, bk) == h.bucketObjs[bk].blobs

bucket_exists(h, bk) == h.bucketObjs[bk].exists

(***************************************************************************)
(* FakeBlob                                                                *)
(***************************************************************************)
_create_if_not_exists(h, b) ==
    [register_blob(h, h.blobObjs[b].bucket, b) EXCEPT !.blobObjs[b].exists = TRUE]

\* FakeBlob(name, bucket): the new object's id is the next free one
FakeBlob_init(h, n, bk) ==
    LET b  == Len(h.blobObjs) + 1
        h1 == [h EXCEPT !.blobObjs = Append(@, [name |-> n, bucket |-> bk,
                    exists |-> FALSE, contents |-> <<>>, pos |-> 0])]
    IN  Ok(_create_if_not_exists(h1, b), b)

blob_delete(h, b) ==
    LET r == delete_blob(h, h.blobObjs[b].bucket, b)
    IN  IF r.err # "none" THEN r
        ELSE Ok([r.h EXCEPT !.blobObjs[b].exists = FALSE], 0)

upload_from_string(h, b, data) ==
    LET bytes == IF data.kind = "str" THEN Utf8(data.v) ELSE data.v
    IN  [h EXCEPT !.blobObjs[b].contents = bytes, !.blobObjs[b].pos = Len(bytes)]

download_as_bytes(h, b, start, end) ==
    LET o == h.blobObjs[b]
        e == IF end.some THEN end.v ELSE o.pos
        r == BytesIORead(o.contents, start, e - start)
    IN  [h |-> [h EXCEPT !.blobObjs[b].pos = r.pos], err |-> "none", ret |-> 0,
         data |-> r.data]

blob_exists(h, b) == h.blobObjs[b].exists

size(h, b) == IF h.blobObjs[b].pos = 0 THEN None ELSE Some(h.blobObjs[b].pos)

(***************************************************************************)
(* FakeBucket, continued: the methods that use FakeBlob                    *)
(***************************************************************************)
\* self.blobs.get(blob_id, FakeBlob(blob_id, self)): the default is built (and
\* registers itself if the name is free) before get looks the name up; an
\* object that is not returned is garbage and is not kept in the heap
bucket_blob(h, bk, n) ==
    LET r   == FakeBlob_init(h, n, bk)
        got == BlobsGet(r.h, bk, n)
    IN  IF got = r.ret THEN Ok(r.h, got) ELSE Ok(h, got)

RECURSIVE DeleteAll(_, _)
DeleteAll(h, bs) ==
    IF bs = <<>> THEN Ok(h, 0)
    ELSE LET r == blob_delete(h, Head(bs))
         IN  IF r.err # "none" THEN r ELSE DeleteAll(r.h, Tail(bs))

(***************************************************************************)
(* FakeClient                                                              *)
(***************************************************************************)
client_bucket(h, n) ==
    IF h.buckets[n] = 0 THEN Raise(h, "NotFound") ELSE Ok(h, h.buckets[n])

\* variant: no test for a name already taken
register_bucket_overwrite(h, bk) ==
    Ok([h EXCEPT !.buckets[h.bucketObjs[bk].name] = bk], bk)

register_bucket(h, bk) ==
    LET n == h.bucketObjs[bk].name
    IN  IF h.buckets[n] # 0 THEN Raise(h, "Conflict")
        ELSE Ok([h EXCEPT !.buckets[n] = bk], bk)

\* del self.__buckets[bucket.name]
delete_bucket(h, bk) ==
    LET n == h.bucketObjs[bk].name
    IN  IF h.buckets[n] = 0 THEN Raise(h, "KeyError")
        ELSE Ok([h EXCEPT !.buckets[n] = 0], 0)

register_upload(h, u) == [h EXCEPT !.uploads = @ \cup {u}]

\* FakeBucket(client, name); when register_bucket raises, the half-built
\* object is never returned and is not kept in the heap
FakeBucket_init(h, n) ==
    LET bk == Len(h.bucketObjs) + 1
        h1 == [h EXCEPT !.bucketObjs = Append(@, [name |-> n, blobs |-> <<>>,
                                                  exists |-> TRUE])]
        r  == register_bucket(h1, bk)
    IN  IF r.err # "none" THEN Raise(h, r.err) ELSE r

create_bucket(h, n) == FakeBucket_init(h, n)

\* variant: the blobs of the bucket are left alone
bucket_delete_nocascade(h, bk) ==
    LET r == delete_bucket(h, bk)
    IN  IF r.err # "none" THEN r
        ELSE Ok([r.h EXCEPT !.bucketObjs[bk].exists = FALSE], 0)

bucket_delete(h, bk) ==
    LET r == delete_bucket(h, bk)
    IN  IF r.err # "none" THEN r
        ELSE DeleteAll([r.h EXCEPT !.bucketObjs[bk].exists = FALSE],
                       h.bucketObjs[bk].blobs)

(***************************************************************************)
(* FakeBlobUpload                                                          *)
(***************************************************************************)
\* the session URL is the template filled with a fresh uuid4: the next free id
create_resumable_upload_session(h, b) ==
    LET u  == Len(h.uploadObjs) + 1
        h1 == [h EXCEPT !.uploadObjs = Append(@, [blob |-> b, finished |-> FALSE,
                    contents |-> <<>>, pos |-> 0, discarded |-> FALSE])]
    IN  Ok(register_upload(h1, u), u)

\* variant: one staging buffer per blob, every session on the blob sees the
\* chunk
upload_write_shared(h, u, data) ==
    [h EXCEPT !.uploadObjs = [v \in 1..Len(@) |->
        IF @[v].blob = @[u].blob
        THEN LET w == BytesIOWrite(@[v].contents, @[v].pos, data)
             IN  [@[v] EXCEPT !.contents = w.contents, !.pos = w.pos]
        ELSE @[v]]]

upload_write(h, u, data) ==
    LET w == BytesIOWrite(h.uploadObjs[u].contents, h.uploadObjs[u].pos, data)
    IN  [h EXCEPT !.uploadObjs[u].contents = w.contents, !.uploadObjs[u].pos = w.pos]

\* variant: no seek(0) before the read, which then starts at the write position
finish_noseek(h, u) ==
    IF h.uploadObjs[u].finished THEN h
    ELSE LET r  == BytesIORead(h.uploadObjs[u].contents, h.uploadObjs[u].pos, -1)
             h1 == [h EXCEPT !.uploadObjs[u].pos = r.pos]
             h2 == upload_from_string(h1, h.uploadObjs[u].blob, Bytes(r.data))
         IN  [h2 EXCEPT !.uploadObjs[u].finished = TRUE]

\* variant: no _finished guard, every call commits the buffer
finish_unguarded(h, u) ==
    LET r  == BytesIORead(h.uploadObjs[u].contents, 0, -1)
        h1 == [h EXCEPT !.uploadObjs[u].pos = r.pos]
        h2 == upload_from_string(h1, h.uploadObjs[u].blob, Bytes(r.data))
    IN  [h2 EXCEPT !.uploadObjs[u].finished = TRUE]

finish(h, u) ==
    IF h.uploadObjs[u].finished THEN h
    ELSE LET r  == BytesIORead(h.uploadObjs[u].contents, 0, -1)
             h1 == [h EXCEPT !.uploadObjs[u].pos = r.pos]
             h2 == upload_from_string(h1, h.uploadObjs[u].blob, Bytes(r.data))
         IN  [h2 EXCEPT !.uploadObjs[u].finished = TRUE]

terminate(h, u) ==
    LET r == blob_delete(h, h.uploadObjs[u].blob)
    IN  IF r.err # "none" THEN r
        ELSE Ok([r.h EXCEPT !.uploadObjs[u].contents = <<>>,
                            !.uploadObjs[u].pos = 0,
                            !.uploadObjs[u].discarded = TRUE], 0)

(***************************************************************************)
(* FakeAuthorizedSession                                                   *)
(***************************************************************************)
session_delete(h, url) ==
    IF url \notin h.uploads THEN Raise(h, "KeyError")
    ELSE terminate([h EXCEPT !.uploads = @ \ {url}], url)

\* variant: the Content-Range header is not looked at
session_put_always_finish(h, url, data, hdr) ==
    IF url \notin h.uploads THEN Raise(h, "KeyError")
    ELSE LET h1 == IF data.kind = "none" THEN h ELSE upload_write(h, url, data.v)
         IN  IF hdr = "noheaders" THEN Raise(h1, "AttributeError")
             ELSE Ok(finish(h1, url), STATUS_OK)

session_put(h, url, data, hdr) ==
    IF url \notin h.uploads THEN Raise(h, "KeyError")
    ELSE LET h1 == IF data.kind = "none" THEN h ELSE upload_write(h, url, data.v)
         IN  IF hdr = "noheaders" THEN Raise(h1, "AttributeError")
             ELSE IF hdr # "unknown" THEN Ok(finish(h1, url), STATUS_OK)
             ELSE Ok(h1, UPLOAD_INCOMPLETE_STATUS)

(***************************************************************************)
(* The state machine: one action per call a caller can make.               *)
(***************************************************************************)
Init ==
    /\ buckets = [n \in {"b1", "b2"} |-> 0]
    /\ uploads = {}
    /\ bucketObjs = <<>>
    /\ blobObjs = <<>>
    /\ uploadObjs = <<>>
    /\ sent = <<>>

\* the heap a call leaves, whether it returned or raised
Commit(r) ==
    /\ buckets' = r.h.buckets
    /\ uploads' = r.h.uploads
    /\ bucketObjs' = r.h.bucketObjs
    /\ blobObjs' = r.h.blobObjs
    /\ uploadObjs' = r.h.uploadObjs

BucketIds == 1..Len(bucketObjs)
BlobIds   == 1..Len(blobObjs)
UploadIds == 1..Len(uploadObjs)

\* a profile bounds the objects the caller constructs
CanConstruct(P) == Len(bucketObjs) + Len(blobObjs) + Len(uploadObjs) < P.maxObjects

CreateBucket(P) ==
    \E n \in P.bucketNames :
        /\ buckets[n] # 0 \/ CanConstruct(P)
        /\ Commit(create_bucket(Heap, n))
        /\ UNCHANGED sent

BucketBlob(P) ==
    \E bk \in BucketIds, n \in P.blobNames :
        /\ BlobsGet(Heap, bk, n) # 0 \/ CanConstruct(P)
        /\ Commit(bucket_blob(Heap, bk, n))
        /\ UNCHANGED sent

NewBlob(P) ==
    \E bk \in BucketIds, n \in P.blobNames :
        /\ CanConstruct(P)
        /\ Commit(FakeBlob_init(Heap, n, bk))
        /\ UNCHANGED sent

BucketDelete ==
    \E bk \in BucketIds :
        /\ Commit(bucket_delete(Heap, bk))
        /\ UNCHANGED sent

BlobDelete ==
    \E b \in BlobIds :
        /\ Commit(blob_delete(Heap, b))
        /\ UNCHANGED sent

BlobWrite(P) ==
    \E b \in BlobIds, d \in P.writeData :
        /\ Commit(Ok(upload_from_string(Heap, b, d), 0))
        /\ UNCHANGED sent

\* every valid range, with and without an explicit end; a profile without
\* range reads makes only the call the tests make first, download_as_bytes()
BlobRead(P) ==
    \E b \in BlobIds :
        \E start \in 0..(IF P.reads THEN Len(blobObjs[b].contents) ELSE 0) :
            \E end \in {None} \cup {Some(e) : e \in
                    IF P.reads THEN start..Len(blobObjs[b].contents) ELSE {}} :
                /\ Commit(download_as_bytes(Heap, b, start, end))
                /\ UNCHANGED sent

OpenUpload(P) ==
    \E b \in BlobIds :
        /\ CanConstruct(P)
        /\ Commit(create_resumable_upload_session(Heap, b))
        /\ sent' = Append(sent, <<>>)

SessionPut(P) ==
    \E url \in 1..(Len(uploadObjs) + 1), d \in P.payloads, hdr \in P.headers :
        /\ url \in uploads => Len(uploadObjs[url].contents) + Len(d.v) <= P.maxBuf
        /\ Commit(session_put(Heap, url, d, hdr))
        /\ sent' = IF url \in uploads THEN [sent EXCEPT ![url] = @ \o d.v] ELSE sent

SessionDelete(P) ==
    \E url \in 1..(Len(uploadObjs) + 1) :
        /\ Commit(session_delete(Heap, url))
        /\ sent' = IF url \in uploads THEN [sent EXCEPT ![url] = <<>>] ELSE sent

Calls(P) ==
    \/ CreateBucket(P)
    \/ BucketBlob(P)
    \/ NewBlob(P)
    \/ BucketDelete
    \/ BlobDelete
    \/ BlobWrite(P)
    \/ BlobRead(P)
    \/ OpenUpload(P)
    \/ SessionPut(P)
    \/ SessionDelete(P)

Next == Calls(StoreProfile)
NextUpload == Calls(UploadProfile)
NextIO == Calls(IoProfile)
NextShared == Calls(SharedProfile)

Spec == Init /\ [][Next]_vars
SpecUpload == Init /\ [][NextUpload]_vars
SpecIO == Init /\ [][NextIO]_vars
SpecShared == Init /\ [][NextShared]_vars

(***************************************************************************)
(* Properties.  A property of a call is stated of every reachable state    *)
(* and every argument: the call's result on the current heap is compared   *)
(* with the heap it was made on.                                           *)
(***************************************************************************)
AllBucketNames == {"b1", "b2"}
AllBlobNames   == {"x", "y"}
PutPayloads    == {NoData, Bytes(<<>>), Bytes(<<1>>), Bytes(<<2>>)}

\* b is the object held under its own name in its bucket's blobs
Registered(h, b) == BlobsGet(h, h.blobObjs[b].bucket, h.blobObjs[b].name) = b

\* bk is the object held under its own name in the client's buckets
BucketRegistered(h, bk) == h.buckets[h.bucketObjs[bk].name] = bk

\* b is one of the blobs list_blobs returns for its bucket
Listed(h, b) ==
    \E i \in 1..Len(list_blobs(h, h.blobObjs[b].bucket)) :
        list_blobs(h, h.blobObjs[b].bucket)[i] = b

Remove(seq, x) == SelectSeq(seq, LAMBDA y : y # x)

\* C1: a put with a known total length on a registered, unfinished session
\* appends the payload, finishes the session, makes the target blob's content
\* the concatenation of every payload put to the session so far, in order,
\* and returns 200.
C1_FinalPutCommits ==
    \A url \in uploads : \A d \in PutPayloads :
        ~uploadObjs[url].finished =>
            LET r == session_put(Heap, url, d, "known")
                b == uploadObjs[url].blob
            IN  /\ r.err = "none"
                /\ r.ret = STATUS_OK
                /\ r.h.uploadObjs[url].contents = uploadObjs[url].contents \o d.v
                /\ r.h.uploadObjs[url].finished
                /\ r.h.blobObjs[b].contents = sent[url] \o d.v

\* a session finished by a second put: its blob holds both payloads, in order,
\* in place of anything written to the blob before
C1_Witness ==
    \E url \in uploads :
        /\ uploadObjs[url].finished
        /\ sent[url] = <<1, 2>>
        /\ blobObjs[uploadObjs[url].blob].contents = <<1, 2>>

\* C2: a put with an unknown total length appends the payload to the staging
\* buffer, leaves every blob and bucket as it was, leaves the finished flag as
\* it was, and returns the incomplete status, never 200.
C2_PartialPutStages ==
    \A url \in uploads : \A d \in PutPayloads :
        LET r == session_put(Heap, url, d, "unknown")
        IN  /\ r.err = "none"
            /\ r.ret = UPLOAD_INCOMPLETE_STATUS
            /\ r.ret # STATUS_OK
            /\ r.h.uploadObjs[url].contents = uploadObjs[url].contents \o d.v
            /\ r.h.uploadObjs[url].finished = uploadObjs[url].finished
            /\ r.h.blobObjs = blobObjs
            /\ r.h.bucketObjs = bucketObjs
            /\ r.h.buckets = buckets
            /\ r.h.uploads = uploads

\* two partial puts in a row: two bytes staged, the session not finished, the
\* blob still empty and existing
C2_Witness ==
    \E url \in uploads :
        /\ ~uploadObjs[url].finished
        /\ uploadObjs[url].contents = <<2, 1>>
        /\ blobObjs[uploadObjs[url].blob].contents = <<>>
        /\ blobObjs[uploadObjs[url].blob].exists

\* C3: delete(url) on a registered session URL, whatever the session's state:
\* afterwards the URL is not registered, the target blob does not exist and is
\* not listed in its bucket, and every other session is still registered.
C3_DeleteTerminates ==
    \A url \in uploads :
        LET r == session_delete(Heap, url)
            b == uploadObjs[url].blob
        IN  /\ url \notin r.h.uploads
            /\ ~blob_exists(r.h, b)
            /\ ~Listed(r.h, b)
            /\ r.h.uploads = uploads \ {url}

\* C4: a put or a delete on a URL that is not registered fails NotFound and
\* changes nothing.
C4_UnknownUrlNotFound ==
    \A url \in (1..(Len(uploadObjs) + 1)) \ uploads :
        /\ session_delete(Heap, url).err = "NotFound"
        /\ session_delete(Heap, url).h = Heap
        /\ \A d \in PutPayloads : \A hdr \in Headers :
               /\ session_put(Heap, url, d, hdr).err = "NotFound"
               /\ session_put(Heap, url, d, hdr).h = Heap

\* C5: bucket.delete() on a registered bucket: the bucket does not exist, none
\* of the blobs it held exists, it lists no blob, and a lookup of its name
\* fails NotFound.
C5_BucketDeleteCascades ==
    \A bk \in BucketIds :
        BucketRegistered(Heap, bk) =>
            LET r    == bucket_delete(Heap, bk)
                held == list_blobs(Heap, bk)
            IN  /\ r.err = "none"
                /\ ~bucket_exists(r.h, bk)
                /\ \A i \in 1..Len(held) : ~blob_exists(r.h, held[i])
                /\ list_blobs(r.h, bk) = <<>>
                /\ client_bucket(r.h, bucketObjs[bk].name).err = "NotFound"

\* a deleted bucket and two blobs of it, none of which exists or is listed
C5_Witness ==
    \E bk \in BucketIds : \E b1, b2 \in BlobIds :
        /\ ~bucketObjs[bk].exists
        /\ buckets[bucketObjs[bk].name] = 0
        /\ bucketObjs[bk].blobs = <<>>
        /\ b1 # b2
        /\ blobObjs[b1].bucket = bk /\ blobObjs[b2].bucket = bk
        /\ blobObjs[b1].name # blobObjs[b2].name
        /\ ~blobObjs[b1].exists /\ ~blobObjs[b2].exists

\* C6: creating a bucket under a registered name fails Conflict and changes
\* nothing (a lookup still returns the original bucket, with its blobs); a
\* lookup of a name that is not registered fails NotFound; after a successful
\* creation a lookup returns the created bucket.
C6_BucketNames ==
    \A n \in AllBucketNames :
        LET r == create_bucket(Heap, n)
        IN  IF buckets[n] # 0
            THEN /\ r.err = "Conflict"
                 /\ r.h = Heap
                 /\ client_bucket(r.h, n).err = "none"
                 /\ client_bucket(r.h, n).ret = buckets[n]
            ELSE /\ client_bucket(Heap, n).err = "NotFound"
                 /\ r.err = "none"
                 /\ r.ret = Len(bucketObjs) + 1
                 /\ r.h.bucketObjs[r.ret] = [name |-> n, blobs |-> <<>>, exists |-> TRUE]
                 /\ client_bucket(r.h, n).err = "none"
                 /\ client_bucket(r.h, n).ret = r.ret
                 /\ \A m \in AllBucketNames \ {n} : r.h.buckets[m] = buckets[m]

\* a created bucket that holds a blob, and a name that is not registered
C6_Witness ==
    /\ \E n \in AllBucketNames :
           /\ buckets[n] # 0
           /\ bucketObjs[buckets[n]].blobs # <<>>
    /\ \E n \in AllBucketNames : buckets[n] = 0

\* C7: immediately after write(data) the size is the byte length of data, for
\* every length including zero; a new blob, never written, has size None.
C7_SizeAfterWrite ==
    /\ \A bk \in BucketIds : \A n \in AllBlobNames :
           LET r == FakeBlob_init(Heap, n, bk) IN size(r.h, r.ret) = None
    /\ \A b \in BlobIds :
           \A d \in IoProfile.writeData :
               size(upload_from_string(Heap, b, d), b)
                   = Some(Len(IF d.kind = "str" THEN Utf8(d.v) ELSE d.v))

\* C8: for content of length n, a range read returns the bytes [start, end)
\* for 0 <= start <= end <= n, and the bytes [start, n) when end is omitted,
\* in every state, whatever was read before.
C8_RangeRead ==
    \A b \in BlobIds :
        LET c == blobObjs[b].contents
        IN  \A start \in 0..Len(c) :
                /\ \A end \in start..Len(c) :
                       download_as_bytes(Heap, b, start, Some(end)).data
                           = SubSeq(c, start + 1, end)
                /\ download_as_bytes(Heap, b, start, None).data
                       = SubSeq(c, start + 1, Len(c))

\* C9: bucket.blob(n) twice returns the same blob: the second call returns
\* the object of the first and changes nothing, the bucket holds one entry
\* for n, and a write through one handle is read through the other; a call
\* for a registered name returns the registered blob as it is.
C9_BlobTwice ==
    \A bk \in BucketIds : \A n \in AllBlobNames :
        LET r1 == bucket_blob(Heap, bk, n)
            r2 == bucket_blob(r1.h, bk, n)
            h3 == upload_from_string(r2.h, r1.ret, Bytes(<<5, 6>>))
        IN  /\ r1.err = "none" /\ r2.err = "none"
            /\ r2.ret = r1.ret
            /\ r2.h = r1.h
            /\ Cardinality({i \in 1..Len(list_blobs(r2.h, bk)) :
                   r2.h.blobObjs[list_blobs(r2.h, bk)[i]].name = n}) = 1
            /\ download_as_bytes(h3, r2.ret, 0, None).data = <<5, 6>>
            /\ BlobsGet(Heap, bk, n) # 0 =>
                   /\ r1.ret = BlobsGet(Heap, bk, n)
                   /\ r1.h = Heap

\* a blob obtained from its bucket and written to, still registered
C9_Witness ==
    \E b \in BlobIds :
        /\ Registered(Heap, b)
        /\ blobObjs[b].exists
        /\ blobObjs[b].contents # <<>>

\* C10: blob.delete() on a registered blob: the blob does not exist, is not
\* listed, get_blob of its name fails NotFound, and every other blob keeps
\* its registration, existence and content; get_blob of a name that is not
\* registered fails NotFound.
C10_BlobDelete ==
    /\ \A b \in BlobIds :
           Registered(Heap, b) =>
               LET r  == blob_delete(Heap, b)
                   bk == blobObjs[b].bucket
               IN  /\ r.err = "none"
                   /\ ~blob_exists(r.h, b)
                   /\ ~Listed(r.h, b)
                   /\ get_blob(r.h, bk, blobObjs[b].name).err = "NotFound"
                   /\ list_blobs(r.h, bk) = Remove(list_blobs(Heap, bk), b)
                   /\ \A o \in BlobIds \ {b} : r.h.blobObjs[o] = blobObjs[o]
                   /\ \A k \in BucketIds \ {bk} : r.h.bucketObjs[k] = bucketObjs[k]
    /\ \A bk \in BucketIds : \A n \in AllBlobNames :
           BlobsGet(Heap, bk, n) = 0 => get_blob(Heap, bk, n).err = "NotFound"

\* a deleted blob beside a blob of the same bucket that is registered, exists
\* and has content
C10_Witness ==
    \E b, o \in BlobIds :
        /\ blobObjs[b].bucket = blobObjs[o].bucket
        /\ ~blobObjs[b].exists /\ ~Registered(Heap, b)
        /\ blobObjs[o].exists /\ Registered(Heap, o)
        /\ blobObjs[o].contents # <<>>

\* C11: list_blobs returns the blobs registered in the bucket, each once, in
\* the order their names were registered (a blob is registered when it is
\* constructed, so in the order of the object ids); a call for a name that is
\* present leaves the list as it is, a new name goes to the end, and so does
\* a name that is deleted and created again.
C11_ListOrder ==
    \A bk \in BucketIds :
        LET l == list_blobs(Heap, bk)
        IN  /\ \A i, j \in 1..Len(l) :
                   i < j => /\ l[i] < l[j]
                            /\ blobObjs[l[i]].name # blobObjs[l[j]].name
            /\ \A i \in 1..Len(l) :
                   /\ blobObjs[l[i]].bucket = bk
                   /\ get_blob(Heap, bk, blobObjs[l[i]].name).ret = l[i]
            /\ \A n \in AllBlobNames :
                   LET r == bucket_blob(Heap, bk, n)
                   IN  list_blobs(r.h, bk) =
                           IF BlobsGet(Heap, bk, n) # 0 THEN l ELSE Append(l, r.ret)
            /\ \A i \in 1..Len(l) :
                   LET d == blob_delete(Heap, l[i])
                       r == bucket_blob(d.h, bk, blobObjs[l[i]].name)
                   IN  /\ d.err = "none"
                       /\ list_blobs(d.h, bk) = Remove(l, l[i])
                       /\ list_blobs(r.h, bk) = Append(Remove(l, l[i]), r.ret)
                       /\ r.ret # l[i]

\* x, then y, then x deleted and created again: the bucket lists y before the
\* new x
C11_Witness ==
    \E bk \in BucketIds :
        /\ Len(bucketObjs[bk].blobs) = 2
        /\ blobObjs[bucketObjs[bk].blobs[1]].name = "y"
        /\ blobObjs[bucketObjs[bk].blobs[2]].name = "x"
        /\ \E o \in BlobIds :
               /\ o < bucketObjs[bk].blobs[1]
               /\ blobObjs[o].bucket = bk
               /\ blobObjs[o].name = "x"
               /\ ~blobObjs[o].exists

\* the state the callers share: the client's maps, every bucket's blob map and
\* every blob's existence and content
SharedState(h) ==
    [buckets |-> h.buckets,
     uploads |-> h.uploads,
     blobs   |-> [bk \in 1..Len(h.bucketObjs) |-> h.bucketObjs[bk].blobs],
     exists  |-> [b \in 1..Len(h.blobObjs) |-> h.blobObjs[b].exists],
     content |-> [b \in 1..Len(h.blobObjs) |-> h.blobObjs[b].contents]]

\* r, the result of a call made in the current state, changed nothing if it
\* raised
FailsAtomically(r) == r.err # "none" => SharedState(r.h) = SharedState(Heap)

\* C12: a call that raises leaves the client's bucket map and upload map,
\* every bucket's blob map and every blob's existence and content as they
\* were: session delete and put, blob.delete, bucket.delete and bucket
\* creation, in every reachable state.
C12_FailedCallsChangeNothing ==
    /\ \A url \in 1..(Len(uploadObjs) + 1) :
           /\ FailsAtomically(session_delete(Heap, url))
           /\ \A d \in PutPayloads, hdr \in Headers :
                  FailsAtomically(session_put(Heap, url, d, hdr))
    /\ \A b \in BlobIds : FailsAtomically(blob_delete(Heap, b))
    /\ \A bk \in BucketIds : FailsAtomically(bucket_delete(Heap, bk))
    /\ \A n \in AllBucketNames : FailsAtomically(create_bucket(Heap, n))

\* a put on a finished session returns normally, leaves every blob as it is
\* and the session finished
FinishedPutsCommitNothing ==
    \A url \in uploads :
        uploadObjs[url].finished =>
            \A d \in PutPayloads, hdr \in {"known", "unknown", "absent"} :
                LET r == session_put(Heap, url, d, hdr)
                IN  /\ r.err = "none"
                    /\ r.h.blobObjs = blobObjs
                    /\ r.h.uploadObjs[url].finished

\* no step takes a session from finished back to unfinished
FinishedStays ==
    \A u \in UploadIds : uploadObjs[u].finished => uploadObjs'[u].finished

\* C13: a session's finished flag, once true, stays true, and every further
\* put on a finished session's URL (total length known or unknown, any
\* payload) leaves the target blob's content unchanged: a repeated final
\* chunk does not commit a second time.
C13_FinishedOnce == []FinishedPutsCommitNothing /\ [][FinishedStays]_vars

\* a finished session that was sent a chunk after its commit: the blob holds
\* less than the session received
C13_Witness ==
    \E url \in uploads :
        /\ uploadObjs[url].finished
        /\ blobObjs[uploadObjs[url].blob].exists
        /\ Len(sent[url]) > Len(blobObjs[uploadObjs[url].blob].contents)
        /\ Len(blobObjs[uploadObjs[url].blob].contents) > 0

\* C14: write(chunk) on a session that is already finished has no effect: the
\* staging buffer after the call is the buffer before it.
C14_WriteAfterFinish ==
    \A u \in UploadIds :
        uploadObjs[u].finished =>
            \A d \in {Bytes(<<1>>), Bytes(<<2>>)} :
                upload_write(Heap, u, d.v).uploadObjs[u].contents
                    = uploadObjs[u].contents

\* C15: a range read does not change a blob: for every valid start and end
\* (start = end = 0 and reads that stop before the end of the content
\* included) the content after the read is the content before it and the
\* size is still the number of bytes written.
C15_ReadsChangeNothing ==
    \A b \in BlobIds :
        \A start \in 0..Len(blobObjs[b].contents) :
            \A end \in start..Len(blobObjs[b].contents) :
                LET r == download_as_bytes(Heap, b, start, Some(end))
                IN  /\ r.h.blobObjs[b].contents = blobObjs[b].contents
                    /\ size(r.h, b) = size(Heap, b)

\* s is an initial part of t
IsPrefix(s, t) == Len(s) <= Len(t) /\ SubSeq(t, 1, Len(s)) = s

\* the sessions ever opened on blob b
SessionsOn(b) == {u \in UploadIds : uploadObjs[u].blob = b}

C17_BucketDeleteFrame ==
    \A bk \in BucketIds :
        LET r == bucket_delete(Heap, bk)
        IN  /\ r.h.uploads = uploads
            /\ r.h.uploadObjs = uploadObjs
            /\ \A o \in BucketIds \ {bk} :
                   /\ BucketRegistered(r.h, o) = BucketRegistered(Heap, o)
                   /\ r.h.bucketObjs[o] = bucketObjs[o]
            /\ \A b \in BlobIds :
                   blobObjs[b].bucket # bk => r.h.blobObjs[b] = blobObjs[b]

\* the calls a caller can make without constructing a FakeBlob directly
NextListed ==
    \/ CreateBucket(StoreProfile)
    \/ BucketBlob(StoreProfile)
    \/ BucketDelete
    \/ BlobDelete
    \/ OpenUpload(StoreProfile)
    \/ SessionPut(StoreProfile)
    \/ SessionDelete(StoreProfile)

SpecListed == Init /\ [][NextListed]_vars

\* C18: in every state reached by bucket creation, bucket.blob, blob.delete,
\* bucket.delete, upload opening, put and session delete, through any handle,
\* a blob reports exists() exactly when it is the object held under its name
\* in its bucket, and a bucket reports exists() exactly when it is the object
\* held under its name in the client.
C18_ExistsIsRegistered ==
    /\ \A b \in BlobIds : blob_exists(Heap, b) <=> Registered(Heap, b)
    /\ \A bk \in BucketIds : bucket_exists(Heap, bk) <=> BucketRegistered(Heap, bk)

\* C19: whenever a put returns 200, the session's target blob then reports
\* exists() true and is the blob held under its name in its bucket, whatever
\* blob.delete(), bucket.delete() and session deletes came before.
C19_CommitIsRetrievable ==
    \A url \in uploads, d \in PutPayloads, hdr \in {"known", "absent"} :
        LET r == session_put(Heap, url, d, hdr)
            b == uploadObjs[url].blob
        IN  (r.err = "none" /\ r.ret = STATUS_OK) =>
                /\ blob_exists(r.h, b)
                /\ Registered(r.h, b)
                /\ get_blob(r.h, blobObjs[b].bucket, blobObjs[b].name).ret = b

====
